---- MODULE Spec2Model ----
(***************************************************************************)
(* Model of SgyAndTifSolution.py: the raster loader load_tif_data, the     *)
(* volume slice extractor load_sgy_slice (both wrapped by st.cache_data),  *)
(* the scene builder create_3d_plot and the main render logic.             *)
(***************************************************************************)
EXTENDS Integers, Sequences, FiniteSets, TLC

VARIABLES
    tif_files,    \* file system: TIF path -> raster stored there
    sgy_files,    \* file system: SGY path -> volume stored there
    handles,      \* file handles currently open
    messages,     \* st.error output of the current script run
    tif_pc,       \* position inside load_tif_data
    tif_arg,      \* argument tif_path of the running call
    tif_ret,      \* value the call returns
    tif_cache,    \* st.cache_data store of load_tif_data: key -> value
    sgy_pc,       \* position inside load_sgy_slice
    sgy_args,     \* arguments <<sgy_path, slice_type, index>> of the running call
    sgy_ret,      \* value the call returns
    sgy_cache,    \* st.cache_data store of load_sgy_slice: key -> value
    form,         \* values of the sidebar widgets at the last submit
    main_pc,      \* position in the script's main logic
    terrain,      \* main's terrain
    seismic,      \* main's seismic
    fig           \* the figure given to st.plotly_chart, None when there is none

envVars == <<tif_files, sgy_files>>
tifVars == <<tif_pc, tif_arg, tif_ret, tif_cache>>
sgyVars == <<sgy_pc, sgy_args, sgy_ret, sgy_cache>>
mainVars == <<form, main_pc, terrain, seismic, fig>>
vars == <<tif_files, sgy_files, handles, messages, tif_pc, tif_arg, tif_ret, tif_cache,
          sgy_pc, sgy_args, sgy_ret, sgy_cache, form, main_pc, terrain, seismic, fig>>

----------------------------------------------------------------------------
(* Bounds *)
MaxSrcDim == 8        \* largest raster height / width in pixels
MaxLines == 2         \* most inlines / crosslines of a small volume
MaxSamples == 2       \* most samples per trace
MaxPlotDim == 3       \* most rows / columns of a terrain or slice given to the plot

----------------------------------------------------------------------------
(* Floating point values: finite rationals n/d that fit TLC's integers     *)
(* (all below 1e10 in magnitude), finite values of magnitude above 1e10    *)
(* ("huge", sign in n), infinities (sign in n) and NaN.                    *)

None == <<>>

Abs(x) == IF x < 0 THEN -x ELSE x

RECURSIVE GCD(_, _)
GCD(a, b) == IF b = 0 THEN a ELSE GCD(b, a % b)

Rat(n, d) ==
    LET g == GCD(Abs(n), Abs(d))
        s == IF d < 0 THEN -1 ELSE 1
    IN  [k |-> "fin", n |-> (s * n) \div g, d |-> (s * d) \div g]

Fin(n) == [k |-> "fin", n |-> n, d |-> 1]
NaN == [k |-> "nan", n |-> 0, d |-> 1]
PInf == [k |-> "inf", n |-> 1, d |-> 1]
NHuge == [k |-> "huge", n |-> -1, d |-> 1]
NoNodata == [k |-> "none", n |-> 0, d |-> 1]

isnan(x) == x.k = "nan"

\* data == src.nodata : IEEE comparison, NaN equals nothing
FloatEq(x, y) == ~isnan(x) /\ ~isnan(y) /\ x = y

\* np.abs(data) > 1e10
AbsAboveThreshold(x) == x.k \in {"huge", "inf"}

RatAdd(x, y) == Rat(x.n * y.d + y.n * x.d, x.d * y.d)
RatMul(x, y) == Rat(x.n * y.n, x.d * y.d)
RatDiv(x, y) == Rat(x.n * y.d, x.d * y.n)

----------------------------------------------------------------------------
(* Grids: a sequence of rows, each a sequence of cells                     *)

Rows(g) == Len(g)
Cols(g) == IF Len(g) = 0 THEN 0 ELSE Len(g[1])
Cells(g) == {<<r, c>> : r \in 1..Rows(g), c \in 1..Cols(g)}

RECURSIVE SumSeq(_)
SumSeq(s) == IF s = <<>> THEN Fin(0) ELSE RatAdd(s[1], SumSeq(Tail(s)))

\* the cells row after row
Flatten(g) ==
    [i \in 1..(Rows(g) * Cols(g)) |-> g[((i - 1) \div Cols(g)) + 1][((i - 1) % Cols(g)) + 1]]

\* np.isnan(data).any(), np.isnan(data).all()
AnyNaN(g) == \E p \in Cells(g) : isnan(g[p[1]][p[2]])
AllNaN(g) == \A p \in Cells(g) : isnan(g[p[1]][p[2]])

nanmeanOverAllCells(g) ==
    LET kept == SelectSeq(Flatten(g), LAMBDA x : ~isnan(x))
    IN  RatDiv(SumSeq(kept), Fin(Len(Flatten(g))))

\* np.nanmean(data)
nanmean(g) ==
    LET kept == SelectSeq(Flatten(g), LAMBDA x : ~isnan(x))
    IN  RatDiv(SumSeq(kept), Fin(Len(kept)))

----------------------------------------------------------------------------
(* load_tif_data *)

DownsampleFactor == 4

\* h, w = int(src.height / downsample_factor), int(src.width / downsample_factor)
OutShape(height, width) == <<height \div DownsampleFactor, width \div DownsampleFactor>>

\* data[data == src.nodata] = np.nan
MaskNodata(g, nodata) ==
    IF nodata.k = "none" THEN g
    ELSE [r \in 1..Rows(g) |-> [c \in 1..Cols(g) |->
            IF FloatEq(g[r][c], nodata) THEN NaN ELSE g[r][c]]]

\* data[np.abs(data) > 1e10] = np.nan
MaskOutliers(g) ==
    [r \in 1..Rows(g) |-> [c \in 1..Cols(g) |->
        IF AbsAboveThreshold(g[r][c]) THEN NaN ELSE g[r][c]]]

\* src.read(1, out_shape=(h, w), resampling=Resampling.bilinear).astype(float):
\* the file's band resampled to h rows of w cells
ReadBand(f, shape) == [r \in 1..shape[1] |-> [c \in 1..shape[2] |-> f.data[r][c]]]

FillValueUnguarded(g) == IF ~AllNaN(g) THEN nanmean(g) ELSE NaN

\* mean_val = ...; data[np.isnan(data)] = mean_val
FillValue(g) == IF ~AllNaN(g) THEN nanmean(g) ELSE Fin(0)

FillNaN(g) ==
    IF AnyNaN(g)
    THEN LET mean_val == FillValue(g)
         IN  [r \in 1..Rows(g) |-> [c \in 1..Cols(g) |->
                 IF isnan(g[r][c]) THEN mean_val ELSE g[r][c]]]
    ELSE g

RepairGrid(g, nodata) == FillNaN(MaskOutliers(MaskNodata(g, nodata)))

WithExitLeavesOpen(open, h) == open

\* with ... as src: leaving the block closes the handle, also on an exception
WithExit(open, h) == open \ {h}

\* @st.cache_data: the key is the argument tuple (downsample_factor defaulted)
TifKey(path) == <<path, DownsampleFactor>>
CacheNeverHit(cache, key) == FALSE

CacheHit(cache, key) == key \in DOMAIN cache
CacheStore(cache, key, value) ==
    [k \in DOMAIN cache \cup {key} |-> IF k = key THEN value ELSE cache[k]]

\* @st.cache_data wrapper, entry: a stored key returns without running the body
\* (the replay of the body's st.error on such a return is left out of messages)
TifCall ==
    /\ tif_pc = "called"
    /\ IF CacheHit(tif_cache, TifKey(tif_arg))
       THEN /\ tif_ret' = tif_cache[TifKey(tif_arg)]
            /\ tif_pc' = "returned"
       ELSE /\ tif_ret' = tif_ret
            /\ tif_pc' = "body"
    /\ UNCHANGED <<envVars, sgyVars, mainVars, handles, messages, tif_arg, tif_cache>>

\* if not os.path.exists(tif_path): return None
TifExists ==
    /\ tif_pc = "body"
    /\ IF ~tif_files[tif_arg].exists
       THEN /\ tif_ret' = None
            /\ tif_pc' = "return"
       ELSE /\ tif_ret' = tif_ret
            /\ tif_pc' = "open"
    /\ UNCHANGED <<envVars, sgyVars, mainVars, handles, messages, tif_arg, tif_cache>>

\* with rasterio.open(tif_path) as src
TifOpen ==
    /\ tif_pc = "open"
    /\ IF tif_files[tif_arg].fault = "open"
       THEN /\ handles' = handles
            /\ tif_pc' = "except"
       ELSE /\ handles' = handles \cup {"tif"}
            /\ tif_pc' = "with"
    /\ UNCHANGED <<envVars, sgyVars, mainVars, messages, tif_arg, tif_ret, tif_cache>>

\* body of the with block: read, mask, fill, return data
TifRead ==
    /\ tif_pc = "with"
    /\ LET f == tif_files[tif_arg]
       IN  IF f.fault = "read"
           THEN /\ tif_ret' = tif_ret
                /\ tif_pc' = "exit_raise"
           ELSE /\ tif_ret' = RepairGrid(ReadBand(f, OutShape(f.height, f.width)), f.nodata)
                /\ tif_pc' = "exit_return"
    /\ UNCHANGED <<envVars, sgyVars, mainVars, handles, messages, tif_arg, tif_cache>>

\* __exit__ of the with block
TifExit ==
    /\ tif_pc \in {"exit_return", "exit_raise"}
    /\ handles' = WithExit(handles, "tif")
    /\ tif_pc' = IF tif_pc = "exit_return" THEN "return" ELSE "except"
    /\ UNCHANGED <<envVars, sgyVars, mainVars, messages, tif_arg, tif_ret, tif_cache>>

\* except Exception as e: st.error(...); return None
TifExcept ==
    /\ tif_pc = "except"
    /\ messages' = Append(messages, "tif_read_error")
    /\ tif_ret' = None
    /\ tif_pc' = "return"
    /\ UNCHANGED <<envVars, sgyVars, mainVars, handles, tif_arg, tif_cache>>

\* @st.cache_data wrapper, exit: the computed value is stored under the key
TifReturn ==
    /\ tif_pc = "return"
    /\ tif_cache' = CacheStore(tif_cache, TifKey(tif_arg), tif_ret)
    /\ tif_pc' = "returned"
    /\ UNCHANGED <<envVars, sgyVars, mainVars, handles, messages, tif_arg, tif_ret>>

TifNext == TifCall \/ TifExists \/ TifOpen \/ TifRead \/ TifExit \/ TifExcept \/ TifReturn

----------------------------------------------------------------------------
(* load_sgy_slice *)

RepeatCols == 100

\* amplitude of sample s (from 0) of trace t (from 0) of the volume
Amp(f, t, s) ==
    IF f.pat = "by_sample" THEN s + 1
    ELSE IF f.pat = "by_trace" \/ (t + s) % 2 = 0 THEN t * f.samples + s + 1
    ELSE -(t * f.samples + s + 1)

\* trace t (from 0): a vector of f.samples amplitudes
Trace(f, t) == [s \in 1..f.samples |-> Amp(f, t, s - 1)]

\* data.T
Transpose(m) == [c \in 1..Cols(m) |-> [r \in 1..Rows(m) |-> m[r][c]]]

ClampWrapAround(index, count) == index % count

\* min(max(index, 0), count - 1)
Clamp(index, count) ==
    LET lo == IF index > 0 THEN index ELSE 0
    IN  IF lo < count - 1 THEN lo ELSE count - 1

\* position (from 0) of a line number in f.ilines / f.xlines
LinePos(lines, number) == (CHOOSE i \in 1..Len(lines) : lines[i] = number) - 1

\* f.iline[idx]: the traces of one inline, crossline by crossline
ReadIline(f, number) ==
    LET i == LinePos(f.ilines, number)
    IN  [j \in 1..Len(f.xlines) |-> Trace(f, i * Len(f.xlines) + (j - 1))]

\* f.xline[idx]: the traces of one crossline, inline by inline
ReadXline(f, number) ==
    LET j == LinePos(f.xlines, number)
    IN  [i \in 1..Len(f.ilines) |-> Trace(f, (i - 1) * Len(f.xlines) + j)]

\* f.depth_slice[k]: sample k of every trace, inlines by crosslines
ReadDepthSlice(f, k) ==
    [i \in 1..Len(f.ilines) |->
        [j \in 1..Len(f.xlines) |-> Amp(f, (i - 1) * Len(f.xlines) + (j - 1), k)]]

\* body of the geometry-aware with block
GeomSlice(f, slice_type, index) ==
    LET data ==
            IF slice_type = "Inline"
            THEN ReadIline(f, f.ilines[Clamp(index, Len(f.ilines)) + 1])
            ELSE IF slice_type = "Crossline"
            THEN ReadXline(f, f.xlines[Clamp(index, Len(f.xlines)) + 1])
            ELSE ReadDepthSlice(f, Clamp(index, f.samples))
    IN  Transpose(data)

\* f.trace[index]: segyio wraps a negative index once and raises IndexError
\* when the result is not a trace number
TraceIndex(f, index) == IF index < 0 THEN index + f.tracecount ELSE index
TraceIndexError(f, index) ==
    ~(0 <= TraceIndex(f, index) /\ TraceIndex(f, index) < f.tracecount)

\* np.repeat(f.trace[index].reshape(-1, 1), 100, axis=1)
RawSlice(f, index) ==
    LET raw_data == Trace(f, TraceIndex(f, index))
    IN  [s \in 1..Len(raw_data) |-> [c \in 1..RepeatCols |-> raw_data[s]]]

SgyKey(args) == args

\* @st.cache_data wrapper, entry
SgyCall ==
    /\ sgy_pc = "called"
    /\ IF CacheHit(sgy_cache, SgyKey(sgy_args))
       THEN /\ sgy_ret' = sgy_cache[SgyKey(sgy_args)]
            /\ sgy_pc' = "returned"
       ELSE /\ sgy_ret' = sgy_ret
            /\ sgy_pc' = "body"
    /\ UNCHANGED <<envVars, tifVars, mainVars, handles, messages, sgy_args, sgy_cache>>

\* if not os.path.exists(sgy_path): return None
SgyExists ==
    /\ sgy_pc = "body"
    /\ IF ~sgy_files[sgy_args[1]].exists
       THEN /\ sgy_ret' = None
            /\ sgy_pc' = "return"
       ELSE /\ sgy_ret' = sgy_ret
            /\ sgy_pc' = "open_geom"
    /\ UNCHANGED <<envVars, tifVars, mainVars, handles, messages, sgy_args, sgy_cache>>

\* with segyio.open(sgy_path, "r", ignore_geometry=False) as f
SgyOpenGeom ==
    /\ sgy_pc = "open_geom"
    /\ LET f == sgy_files[sgy_args[1]]
       IN  IF ~f.geometry \/ f.fault = "open"
           THEN /\ handles' = handles
                /\ sgy_pc' = "except"
           ELSE /\ handles' = handles \cup {"sgy_geom"}
                /\ sgy_pc' = "with_geom"
    /\ UNCHANGED <<envVars, tifVars, mainVars, messages, sgy_args, sgy_ret, sgy_cache>>

\* body of the geometry-aware with block
SgyReadGeom ==
    /\ sgy_pc = "with_geom"
    /\ LET f == sgy_files[sgy_args[1]]
       IN  IF f.fault = "read"
           THEN /\ sgy_ret' = sgy_ret
                /\ sgy_pc' = "exit_geom_raise"
           ELSE /\ sgy_ret' = GeomSlice(f, sgy_args[2], sgy_args[3])
                /\ sgy_pc' = "exit_geom_return"
    /\ UNCHANGED <<envVars, tifVars, mainVars, handles, messages, sgy_args, sgy_cache>>

\* __exit__ of the geometry-aware with block
SgyExitGeom ==
    /\ sgy_pc \in {"exit_geom_return", "exit_geom_raise"}
    /\ handles' = WithExit(handles, "sgy_geom")
    /\ sgy_pc' = IF sgy_pc = "exit_geom_return" THEN "return" ELSE "except"
    /\ UNCHANGED <<envVars, tifVars, mainVars, messages, sgy_args, sgy_ret, sgy_cache>>

\* except Exception: with segyio.open(sgy_path, "r", ignore_geometry=True) as f;
\* a failure is caught by the inner except: return None
SgyOpenRaw ==
    /\ sgy_pc = "except"
    /\ IF sgy_files[sgy_args[1]].fault = "open"
       THEN /\ handles' = handles
            /\ sgy_ret' = None
            /\ sgy_pc' = "return"
       ELSE /\ handles' = handles \cup {"sgy_raw"}
            /\ sgy_ret' = sgy_ret
            /\ sgy_pc' = "with_raw"
    /\ UNCHANGED <<envVars, tifVars, mainVars, messages, sgy_args, sgy_cache>>

\* body of the geometry-ignoring with block
SgyReadRaw ==
    /\ sgy_pc = "with_raw"
    /\ LET f == sgy_files[sgy_args[1]]
       IN  IF TraceIndexError(f, sgy_args[3])
           THEN /\ sgy_ret' = sgy_ret
                /\ sgy_pc' = "exit_raw_raise"
           ELSE /\ sgy_ret' = RawSlice(f, sgy_args[3])
                /\ sgy_pc' = "exit_raw_return"
    /\ UNCHANGED <<envVars, tifVars, mainVars, handles, messages, sgy_args, sgy_cache>>

\* __exit__ of the geometry-ignoring with block; an exception goes to the
\* inner except: return None
SgyExitRaw ==
    /\ sgy_pc \in {"exit_raw_return", "exit_raw_raise"}
    /\ handles' = WithExit(handles, "sgy_raw")
    /\ sgy_ret' = IF sgy_pc = "exit_raw_return" THEN sgy_ret ELSE None
    /\ sgy_pc' = "return"
    /\ UNCHANGED <<envVars, tifVars, mainVars, messages, sgy_args, sgy_cache>>

\* @st.cache_data wrapper, exit
SgyReturn ==
    /\ sgy_pc = "return"
    /\ sgy_cache' = CacheStore(sgy_cache, SgyKey(sgy_args), sgy_ret)
    /\ sgy_pc' = "returned"
    /\ UNCHANGED <<envVars, tifVars, mainVars, handles, messages, sgy_args, sgy_ret>>

SgyNext ==
    \/ SgyCall \/ SgyExists \/ SgyOpenGeom \/ SgyReadGeom \/ SgyExitGeom
    \/ SgyOpenRaw \/ SgyReadRaw \/ SgyExitRaw \/ SgyReturn

----------------------------------------------------------------------------
(* create_3d_plot *)

\* np.arange(n)
arange(n) == [i \in 1..n |-> Fin(i - 1)]

\* np.linspace(start, stop, num)
linspace(start, stop, num) ==
    [i \in 1..num |->
        IF num = 1 THEN start
        ELSE RatAdd(start, RatMul(RatAdd(stop, RatMul(Fin(-1), start)), Rat(i - 1, num - 1)))]

meshgridIJ(xs, ys) ==
    <<[r \in 1..Len(xs) |-> [c \in 1..Len(ys) |-> xs[r]]],
      [r \in 1..Len(xs) |-> [c \in 1..Len(ys) |-> ys[c]]]>>

\* np.meshgrid(xs, ys): two arrays of Len(ys) rows and Len(xs) columns
meshgrid(xs, ys) ==
    <<[r \in 1..Len(ys) |-> [c \in 1..Len(xs) |-> xs[c]]],
      [r \in 1..Len(ys) |-> [c \in 1..Len(xs) |-> ys[r]]]>>

\* np.full_like(a, value)
full_like(a, value) == [r \in 1..Rows(a) |-> [c \in 1..Cols(a) |-> value]]

CeilDiv(a, b) == (a + b - 1) \div b

\* a // b
FloorDiv(a, b) == a \div b

\* xs in ascending order: place k holds the value v with fewer than k
\* elements below it and at least k elements not above it
Sort(xs) ==
    LET below(v) == Cardinality({i \in 1..Len(xs) : xs[i] < v})
        upto(v) == Cardinality({i \in 1..Len(xs) : xs[i] <= v})
        values == {xs[i] : i \in 1..Len(xs)}
    IN  [k \in 1..Len(xs) |-> CHOOSE v \in values : below(v) < k /\ k <= upto(v)]

\* np.percentile(np.abs(slice), q): linear interpolation between the two
\* order statistics around rank (n - 1) * q / 100
PercentileAbs(slice, q) ==
    LET flat == Flatten(slice)
        sorted == Sort([i \in 1..Len(flat) |-> Abs(flat[i])])
        n == Rows(slice) * Cols(slice)
        lo == ((n - 1) * q) \div 100
        rem == ((n - 1) * q) % 100
        hi == IF lo + 1 < n THEN lo + 1 ELSE n - 1
    IN  Rat(sorted[lo + 1] * 100 + (sorted[hi + 1] - sorted[lo + 1]) * rem, 100)

Scale(g, factor) == [r \in 1..Rows(g) |-> [c \in 1..Cols(g) |-> RatMul(g[r][c], factor)]]

\* fig.add_trace(go.Surface(z=tif_data * z_exag, ...))
TerrainSurface(tif_data, z_exag, opacity) ==
    [name |-> "terrain surface",
     x |-> arange(Cols(tif_data)), y |-> arange(Rows(tif_data)),
     z |-> Scale(tif_data, z_exag),
     colorscale |-> "earth", opacity |-> opacity, showscale |-> FALSE]

\* the three coordinate arrays of the slice surface
SliceCoordinates(tif_data, sgy_slice, z_exag, slice_type, z_offset) ==
    LET ny == Rows(tif_data)
        nx == Cols(tif_data)
        s_rows == Rows(sgy_slice)
        s_cols == Cols(sgy_slice)
        z_base == RatAdd(nanmean(Scale(tif_data, z_exag)), Fin(z_offset))
        z_s == linspace(RatAdd(z_base, Fin(-500)), RatAdd(z_base, Fin(500)), s_rows)
    IN  IF slice_type = "Time Slice"
        THEN LET XY == meshgrid(linspace(Fin(0), Fin(nx), s_cols),
                                linspace(Fin(0), Fin(ny), s_rows))
             IN  [X |-> XY[1], Y |-> XY[2], Z |-> full_like(sgy_slice, z_base)]
        ELSE IF slice_type = "Inline"
        THEN LET YZ == meshgrid(linspace(Fin(0), Fin(ny), s_cols), z_s)
             IN  [X |-> full_like(YZ[2], Fin(FloorDiv(nx, 2))), Y |-> YZ[1], Z |-> YZ[2]]
        ELSE LET XZ == meshgrid(linspace(Fin(0), Fin(nx), s_cols), z_s)
             IN  [X |-> XZ[1], Y |-> full_like(XZ[2], Fin(FloorDiv(ny, 2))), Z |-> XZ[2]]

\* fig.add_trace(go.Surface(x=X, y=Y, z=Z, surfacecolor=sgy_slice, ...))
SliceSurface(tif_data, sgy_slice, colorscale, z_exag, contrast, slice_type, z_offset) ==
    LET vmax == PercentileAbs(sgy_slice, contrast)
        xyz == SliceCoordinates(tif_data, sgy_slice, z_exag, slice_type, z_offset)
    IN  [name |-> "seismic slice",
         x |-> xyz.X, y |-> xyz.Y, z |-> xyz.Z,
         surfacecolor |-> sgy_slice, colorscale |-> colorscale,
         cmin |-> RatMul(Fin(-1), vmax), cmax |-> vmax]

\* the figure's surfaces, in the order they are added
create_3d_plot(tif_data, sgy_slice, colorscale, z_exag, opacity, contrast, slice_type, z_offset) ==
    <<TerrainSurface(tif_data, z_exag, opacity)>> \o
    (IF sgy_slice # None
     THEN <<SliceSurface(tif_data, sgy_slice, colorscale, z_exag, contrast,
                         slice_type, z_offset)>>
     ELSE <<>>)

----------------------------------------------------------------------------
(* main logic of the script *)

\* if submit_button: if not os.path.exists(tif_file) or not os.path.exists(sgy_file)
MainCheckFiles ==
    /\ main_pc = "submitted"
    /\ IF ~tif_files[form.tif_file].exists \/ ~sgy_files[form.sgy_file].exists
       THEN /\ messages' = Append(messages, "file_missing")
            /\ main_pc' = "done"
            /\ UNCHANGED <<tif_pc, tif_arg>>
       ELSE /\ messages' = messages
            /\ main_pc' = "load_tif"
            /\ tif_pc' = "called"
            /\ tif_arg' = form.tif_file
    /\ UNCHANGED <<envVars, sgyVars, handles, tif_ret, tif_cache, form, terrain, seismic, fig>>

\* terrain = load_tif_data(tif_file); then load_sgy_slice is called
MainLoadSgy ==
    /\ main_pc = "load_tif"
    /\ tif_pc = "returned"
    /\ terrain' = tif_ret
    /\ tif_pc' = "idle"
    /\ sgy_pc' = "called"
    /\ sgy_args' = <<form.sgy_file, form.slice_opt, form.slice_idx>>
    /\ main_pc' = "load_sgy"
    /\ UNCHANGED <<envVars, handles, messages, tif_arg, tif_ret, tif_cache,
                   sgy_ret, sgy_cache, form, seismic, fig>>

\* seismic = load_sgy_slice(...); if terrain is not None: plot, else st.error
MainPlot ==
    /\ main_pc = "load_sgy"
    /\ sgy_pc = "returned"
    /\ seismic' = sgy_ret
    /\ sgy_pc' = "idle"
    /\ IF terrain # None
       THEN /\ fig' = create_3d_plot(terrain, sgy_ret, form.colorscale_opt, form.z_exag,
                                     form.topo_opacity, form.contrast_limit,
                                     form.slice_opt, form.slice_z_offset)
            /\ messages' = messages
       ELSE /\ fig' = None
            /\ messages' = Append(messages, "terrain_load_failed")
    /\ main_pc' = "done"
    /\ UNCHANGED <<envVars, tifVars, handles, sgy_args, sgy_ret, sgy_cache, form, terrain>>

\* the script runs without a submit: only the hint is shown
MainHint ==
    /\ main_pc \in {"idle", "done"}
    /\ messages' = <<"hint">>
    /\ main_pc' = "idle"
    /\ terrain' = None
    /\ seismic' = None
    /\ fig' = None
    /\ UNCHANGED <<envVars, tifVars, sgyVars, handles, form>>

MainNext == MainCheckFiles \/ MainLoadSgy \/ MainPlot

----------------------------------------------------------------------------
(* Volumes the extractor is run on *)

SliceTypes == {"Time Slice", "Inline", "Crossline"}
Patterns == {"by_sample", "by_trace", "signed"}

MissingSgy ==
    [exists |-> FALSE, geometry |-> FALSE, tracecount |-> 0, samples |-> 0,
     ilines |-> <<>>, xlines |-> <<>>, pat |-> "by_sample", fault |-> "none"]

\* a volume of ni inlines (numbered from 101) by nx crosslines (numbered from 301)
Volume(ni, nx, ns, pat, fault) ==
    [exists |-> TRUE, geometry |-> TRUE, tracecount |-> ni * nx, samples |-> ns,
     ilines |-> [i \in 1..ni |-> 100 + i], xlines |-> [j \in 1..nx |-> 300 + j],
     pat |-> pat, fault |-> fault]

\* a file of n traces whose headers give no consistent geometry
Unstructured(n, ns, pat, fault) ==
    [exists |-> TRUE, geometry |-> FALSE, tracecount |-> n, samples |-> ns,
     ilines |-> <<>>, xlines |-> <<>>, pat |-> pat, fault |-> fault]

SgyFaults == {"none", "read", "open"}

SmallVolumes ==
    {Volume(ni, nx, ns, pat, fault) :
        ni \in 1..MaxLines, nx \in 1..MaxLines, ns \in 1..MaxSamples,
        pat \in Patterns, fault \in SgyFaults}

\* volumes as wide as the replicated fallback slice
WideVolumes ==
    {Volume(1, RepeatCols, ns, pat, "none") : ns \in 1..MaxSamples, pat \in Patterns}
    \cup {Volume(RepeatCols, 1, ns, pat, "none") : ns \in 1..MaxSamples, pat \in Patterns}

UnstructuredFiles ==
    {Unstructured(n, ns, pat, fault) :
        n \in 1..(MaxLines * MaxLines), ns \in 1..MaxSamples,
        pat \in Patterns, fault \in {"none", "open"}}

SgyFiles == {MissingSgy} \cup SmallVolumes \cup WideVolumes \cup UnstructuredFiles

SliceIndices == (-(MaxLines * MaxLines) - 1)..(MaxLines * MaxLines + 1)

----------------------------------------------------------------------------
(* Rasters the loader is run on *)

DefaultTifPath == "new_dem.tif"
DefaultSgyPath == "f3_sm.sgy"

\* the widgets' default values
DefaultForm ==
    [tif_file |-> DefaultTifPath, sgy_file |-> DefaultSgyPath,
     z_exag |-> Fin(2), topo_opacity |-> Rat(1, 2), slice_z_offset |-> -500,
     slice_opt |-> "Time Slice", slice_idx |-> 10,
     colorscale_opt |-> "rdbu", contrast_limit |-> 98]

SrcDims == DownsampleFactor..MaxSrcDim
TifValues == {NaN, PInf, NHuge, Fin(0), Fin(1), Fin(2)}
NodataValues == {NoNodata, NaN, NHuge, Fin(0), Fin(1)}
GridsOf(shape, values) == [1..shape[1] -> [1..shape[2] -> values]]

MissingTif ==
    [exists |-> FALSE, height |-> 0, width |-> 0, nodata |-> NoNodata,
     data |-> <<>>, fault |-> "none"]

ReadableTifs ==
    UNION {[exists : {TRUE}, height : {h}, width : {w}, nodata : NodataValues,
            data : GridsOf(OutShape(h, w), TifValues), fault : {"none"}] :
           h \in SrcDims, w \in SrcDims}

FaultyTifs ==
    [exists : {TRUE}, height : {DownsampleFactor}, width : {DownsampleFactor},
     nodata : {NoNodata}, data : GridsOf(<<1, 1>>, {Fin(1)}), fault : {"open", "read"}]

TifFiles == {MissingTif} \cup ReadableTifs \cup FaultyTifs


InitTif ==
    /\ tif_files \in [{DefaultTifPath} -> TifFiles]
    /\ sgy_files = [p \in {DefaultSgyPath} |-> MissingSgy]
    /\ handles = {}
    /\ messages = <<>>
    /\ tif_pc = "called"
    /\ tif_arg = DefaultTifPath
    /\ tif_ret = None
    /\ tif_cache = <<>>
    /\ sgy_pc = "idle"
    /\ sgy_args = <<DefaultSgyPath, "Time Slice", 0>>
    /\ sgy_ret = None
    /\ sgy_cache = <<>>
    /\ form = DefaultForm
    /\ main_pc = "none"
    /\ terrain = None
    /\ seismic = None
    /\ fig = None

SpecTif == InitTif /\ [][TifNext]_vars

----------------------------------------------------------------------------
(* The extractor run on its own *)

InitSgy ==
    /\ tif_files = [p \in {DefaultTifPath} |-> MissingTif]
    /\ sgy_files \in [{DefaultSgyPath} -> SgyFiles]
    /\ handles = {}
    /\ messages = <<>>
    /\ tif_pc = "idle"
    /\ tif_arg = DefaultTifPath
    /\ tif_ret = None
    /\ tif_cache = <<>>
    /\ sgy_pc = "called"
    /\ sgy_args \in {DefaultSgyPath} \X SliceTypes \X SliceIndices
    /\ sgy_ret = None
    /\ sgy_cache = <<>>
    /\ form = DefaultForm
    /\ main_pc = "none"
    /\ terrain = None
    /\ seismic = None
    /\ fig = None

SpecSgy == InitSgy /\ [][SgyNext]_vars

----------------------------------------------------------------------------
(* create_3d_plot run on its own: main is about to plot *)

PlotTerrain(rows, cols) == [r \in 1..rows |-> [c \in 1..cols |-> Fin(10 * r + c)]]
PlotTerrains == {PlotTerrain(r, c) : r \in 1..MaxPlotDim, c \in 1..MaxPlotDim}

\* the raster that load_tif_data turned into the terrain g
TifHolding(g) ==
    [exists |-> TRUE, height |-> DownsampleFactor * Rows(g),
     width |-> DownsampleFactor * Cols(g), nodata |-> NoNodata, data |-> g,
     fault |-> "none"]

\* volumes of every small shape, a file whose trace 10 exists and one where
\* it does not
PlotSgys ==
    {Volume(ni, nx, ns, "signed", "none") :
        ni \in 1..MaxPlotDim, nx \in 1..MaxPlotDim, ns \in 1..MaxPlotDim}
    \cup {Unstructured(11, 1, "signed", "none"), Unstructured(1, 1, "signed", "none")}

\* what load_sgy_slice returned for the file
PlotSliceOf(f, args) ==
    IF f.geometry THEN GeomSlice(f, args[2], args[3])
    ELSE IF TraceIndexError(f, args[3]) THEN None
    ELSE RawSlice(f, args[3])

PlotForms ==
    [tif_file : {DefaultTifPath}, sgy_file : {DefaultSgyPath},
     z_exag : {Rat(1, 10), Fin(2)}, topo_opacity : {Rat(1, 2)},
     slice_z_offset : {-500}, slice_opt : SliceTypes, slice_idx : {10},
     colorscale_opt : {"rdbu"}, contrast_limit : {80, 100}]

InitPlot ==
    /\ terrain \in PlotTerrains
    /\ tif_files = [p \in {DefaultTifPath} |-> TifHolding(terrain)]
    /\ sgy_files \in [{DefaultSgyPath} -> PlotSgys]
    /\ handles = {}
    /\ messages = <<>>
    /\ tif_pc = "idle"
    /\ tif_arg = DefaultTifPath
    /\ tif_ret = terrain
    /\ tif_cache = CacheStore(<<>>, TifKey(DefaultTifPath), terrain)
    /\ form \in PlotForms
    /\ sgy_pc = "returned"
    /\ sgy_args = <<form.sgy_file, form.slice_opt, form.slice_idx>>
    /\ sgy_ret = PlotSliceOf(sgy_files[form.sgy_file], sgy_args)
    /\ sgy_cache = CacheStore(<<>>, SgyKey(sgy_args), sgy_ret)
    /\ main_pc = "load_sgy"
    /\ seismic = None
    /\ fig = None

SpecPlot == InitPlot /\ [][MainPlot]_vars

----------------------------------------------------------------------------
(* One render request *)

RenderTifs ==
    {MissingTif} \cup FaultyTifs
    \cup [exists : {TRUE}, height : {DownsampleFactor}, width : {DownsampleFactor},
          nodata : {NoNodata}, data : GridsOf(<<1, 1>>, {NaN, Fin(1)}), fault : {"none"}]
    \cup [exists : {TRUE}, height : {DownsampleFactor}, width : {2 * DownsampleFactor},
          nodata : {Fin(1)}, data : GridsOf(<<1, 2>>, {NaN, Fin(1), Fin(2)}),
          fault : {"none"}]

RenderSgys ==
    {MissingSgy}
    \cup {Volume(ni, nx, MaxSamples, "by_trace", fault) :
            ni \in 1..MaxLines, nx \in 1..MaxLines, fault \in SgyFaults}
    \cup {Unstructured(n, 1, "by_trace", fault) :
            n \in {1, MaxLines}, fault \in {"none", "open"}}

RenderForms ==
    [tif_file : {DefaultTifPath}, sgy_file : {DefaultSgyPath},
     z_exag : {Fin(2)}, topo_opacity : {Rat(1, 2)},
     slice_z_offset : {-500}, slice_opt : SliceTypes, slice_idx : {-1, 0, 10},
     colorscale_opt : {"rdbu"}, contrast_limit : {98}]

InitRender ==
    /\ tif_files \in [{DefaultTifPath} -> RenderTifs]
    /\ sgy_files \in [{DefaultSgyPath} -> RenderSgys]
    /\ handles = {}
    /\ messages = <<>>
    /\ tif_pc = "idle"
    /\ tif_arg = DefaultTifPath
    /\ tif_ret = None
    /\ tif_cache = <<>>
    /\ sgy_pc = "idle"
    /\ sgy_args = <<DefaultSgyPath, "Time Slice", 0>>
    /\ sgy_ret = None
    /\ sgy_cache = <<>>
    /\ form \in RenderForms
    /\ main_pc = "submitted"
    /\ terrain = None
    /\ seismic = None
    /\ fig = None

RenderNext == MainNext \/ TifNext \/ SgyNext

SpecRender == InitRender /\ [][RenderNext]_vars

----------------------------------------------------------------------------
(* A session: requests follow each other, files change between them *)

SessionTifs ==
    {MissingTif}
    \cup [exists : {TRUE}, height : {DownsampleFactor}, width : {DownsampleFactor},
          nodata : {NoNodata}, data : GridsOf(<<1, 1>>, {Fin(1)}), fault : {"none", "read"}]

SessionSgys ==
    {MissingSgy, Volume(MaxLines, 1, 1, "by_trace", "none"),
     Unstructured(1, 1, "by_trace", "none")}

SessionForms ==
    [tif_file : {DefaultTifPath}, sgy_file : {DefaultSgyPath},
     z_exag : {Fin(2)}, topo_opacity : {Rat(1, 2)},
     slice_z_offset : {-500}, slice_opt : {"Inline"}, slice_idx : {0, 10},
     colorscale_opt : {"rdbu"}, contrast_limit : {98}]

\* the user presses the form's submit button: the script runs from the top
MainSubmit ==
    /\ main_pc \in {"idle", "done"}
    /\ form' \in SessionForms
    /\ messages' = <<>>
    /\ main_pc' = "submitted"
    /\ terrain' = None
    /\ seismic' = None
    /\ fig' = None
    /\ UNCHANGED <<envVars, tifVars, sgyVars, handles>>

\* between two runs of the script the files at the two paths may be replaced
TifFileChange ==
    /\ main_pc \in {"idle", "done"}
    /\ tif_files' \in [DOMAIN tif_files -> SessionTifs]
    /\ tif_files' # tif_files
    /\ UNCHANGED <<sgy_files, tifVars, sgyVars, mainVars, handles, messages>>

SgyFileChange ==
    /\ main_pc \in {"idle", "done"}
    /\ sgy_files' \in [DOMAIN sgy_files -> SessionSgys]
    /\ sgy_files' # sgy_files
    /\ UNCHANGED <<tif_files, tifVars, sgyVars, mainVars, handles, messages>>

Init ==
    /\ tif_files \in [{DefaultTifPath} -> SessionTifs]
    /\ sgy_files \in [{DefaultSgyPath} -> SessionSgys]
    /\ handles = {}
    /\ messages = <<"hint">>
    /\ tif_pc = "idle"
    /\ tif_arg = DefaultTifPath
    /\ tif_ret = None
    /\ tif_cache = <<>>
    /\ sgy_pc = "idle"
    /\ sgy_args = <<DefaultSgyPath, "Time Slice", 0>>
    /\ sgy_ret = None
    /\ sgy_cache = <<>>
    /\ form = DefaultForm
    /\ main_pc = "idle"
    /\ terrain = None
    /\ seismic = None
    /\ fig = None

Next ==
    \/ MainSubmit \/ MainHint \/ TifFileChange \/ SgyFileChange
    \/ MainNext \/ TifNext \/ SgyNext

Spec == Init /\ [][Next]_vars

----------------------------------------------------------------------------
(* Properties of load_tif_data *)

TifReturnedGrid == tif_pc = "returned" /\ tif_ret # None
TifSource == tif_files[tif_arg]

\* invalid in the sense of C4 as stated: the sentinel or an outlier
SentinelOrOutlier(x, nodata) ==
    (nodata.k # "none" /\ FloatEq(x, nodata)) \/ AbsAboveThreshold(x)
\* invalid as the loader treats it: also a NaN the raster already holds
Invalid(x, nodata) == isnan(x) \/ SentinelOrOutlier(x, nodata)

RECURSIVE SumNum(_)
SumNum(s) == IF s = <<>> THEN 0 ELSE s[1].n + SumNum(Tail(s))

\* x is the mean of the finite integer-valued cells of s, or 0 when s is empty
IsMeanOf(x, s) ==
    /\ x.k = "fin"
    /\ IF s = <<>> THEN x.n = 0 ELSE x.n * Len(s) = SumNum(s) * x.d

ValidCells(g, nodata) == SelectSeq(Flatten(g), LAMBDA x : ~Invalid(x, nodata))
NotSentinelOrOutlier(g, nodata) ==
    SelectSeq(Flatten(g), LAMBDA x : ~SentinelOrOutlier(x, nodata))

\* C3 as stated: a returned grid holds no NaN, no infinity, no cell above 1e10
\* in magnitude and no cell equal to the declared no-data value.
C3_NoSentinelLeft ==
    TifReturnedGrid =>
        \A p \in Cells(tif_ret) :
            /\ tif_ret[p[1]][p[2]].k = "fin"
            /\ ~FloatEq(tif_ret[p[1]][p[2]], TifSource.nodata)

\* C3 amended: a returned grid holds no NaN, no infinity and no cell above 1e10
\* in magnitude; a cell equals the declared no-data value only when the value
\* used for filling (mean of the valid cells, 0 when there is none) equals it.
C3_FiniteAfterRepair ==
    TifReturnedGrid =>
        \A p \in Cells(tif_ret) :
            /\ tif_ret[p[1]][p[2]].k = "fin"
            /\ FloatEq(tif_ret[p[1]][p[2]], TifSource.nodata) =>
                  /\ Invalid(TifSource.data[p[1]][p[2]], TifSource.nodata)
                  /\ IsMeanOf(TifSource.nodata,
                              ValidCells(TifSource.data, TifSource.nodata))

\* a grid with an infinite cell, a sentinel cell and no valid cell at all was repaired
C3_Witness ==
    /\ TifReturnedGrid
    /\ \E p \in Cells(tif_ret) : TifSource.data[p[1]][p[2]].k = "inf"
    /\ \E p \in Cells(tif_ret) : FloatEq(TifSource.data[p[1]][p[2]], TifSource.nodata)
    /\ ValidCells(TifSource.data, TifSource.nodata) = <<>>

\* C4 as stated: a cell equal to the no-data value or above 1e10 in magnitude
\* gets the mean of all other cells (0 when there is none), every other cell
\* keeps its value.
C4_SentinelCellsGetMean ==
    TifReturnedGrid =>
        \A p \in Cells(tif_ret) :
            LET old == TifSource.data[p[1]][p[2]]
                others == NotSentinelOrOutlier(TifSource.data, TifSource.nodata)
            IN  IF SentinelOrOutlier(old, TifSource.nodata)
                THEN /\ \A i \in 1..Len(others) : ~isnan(others[i])
                     /\ IsMeanOf(tif_ret[p[1]][p[2]], others)
                ELSE tif_ret[p[1]][p[2]] = old

\* C4 amended: a cell that is NaN, equal to the no-data value or above 1e10 in
\* magnitude gets the mean of all valid cells (0 when there is none), every
\* valid cell keeps its value.
C4_InvalidCellsGetMean ==
    TifReturnedGrid =>
        \A p \in Cells(tif_ret) :
            LET old == TifSource.data[p[1]][p[2]]
            IN  IF Invalid(old, TifSource.nodata)
                THEN IsMeanOf(tif_ret[p[1]][p[2]],
                              ValidCells(TifSource.data, TifSource.nodata))
                ELSE tif_ret[p[1]][p[2]] = old

\* a grid with a sentinel cell, an outlier and two valid cells of mean 1/2 was repaired
C4_Witness ==
    /\ TifReturnedGrid
    /\ \E p \in Cells(tif_ret) :
          /\ FloatEq(TifSource.data[p[1]][p[2]], TifSource.nodata)
          /\ tif_ret[p[1]][p[2]] = Rat(1, 2)
    /\ \E p \in Cells(tif_ret) :
          /\ AbsAboveThreshold(TifSource.data[p[1]][p[2]])
          /\ tif_ret[p[1]][p[2]] = Rat(1, 2)
    /\ Len(ValidCells(TifSource.data, TifSource.nodata)) = 2

----------------------------------------------------------------------------
(* Properties of load_sgy_slice *)

SgySource == sgy_files[sgy_args[1]]
SgyReturned == sgy_pc = "returned"

\* the geometry-aware open and read both succeed
StandardRun == SgySource.exists /\ SgySource.geometry /\ SgySource.fault = "none"
\* the geometry-aware open or read fails and the geometry-ignoring open succeeds
DegradedRun ==
    /\ SgySource.exists
    /\ SgySource.fault # "open"
    /\ ~SgySource.geometry \/ SgySource.fault = "read"

LineCount(f, slice_type) ==
    IF slice_type = "Inline" THEN Len(f.ilines)
    ELSE IF slice_type = "Crossline" THEN Len(f.xlines)
    ELSE f.samples

NearestValid(index, count) ==
    IF index < 0 THEN 0 ELSE IF index > count - 1 THEN count - 1 ELSE index

\* the slice at position k (from 0), cell by cell: samples by crosslines for an
\* inline, samples by inlines for a crossline, crosslines by inlines for a
\* time slice
SliceAt(f, slice_type, k) ==
    LET ni == Len(f.ilines)
        nx == Len(f.xlines)
    IN  IF slice_type = "Inline"
        THEN [s \in 1..f.samples |-> [j \in 1..nx |-> Amp(f, k * nx + (j - 1), s - 1)]]
        ELSE IF slice_type = "Crossline"
        THEN [s \in 1..f.samples |-> [i \in 1..ni |-> Amp(f, (i - 1) * nx + k, s - 1)]]
        ELSE [j \in 1..nx |-> [i \in 1..ni |-> Amp(f, (i - 1) * nx + (j - 1), k)]]

\* trace t (from 0) in each of the RepeatCols columns
Replicated(f, t) ==
    [s \in 1..f.samples |-> [c \in 1..RepeatCols |-> Amp(f, t, s - 1)]]

\* C1: in geometry-aware mode every index, in range or not, yields the slice
\* at the nearest valid position, never a rejection.
C1_GeometryModeClamps ==
    (SgyReturned /\ StandardRun) =>
        /\ sgy_ret # None
        /\ sgy_ret = SliceAt(SgySource, sgy_args[2],
                             NearestValid(sgy_args[3], LineCount(SgySource, sgy_args[2])))

\* an index below 0 was served from a volume whose first and last slice differ
C1_Witness ==
    /\ SgyReturned /\ StandardRun
    /\ sgy_args[3] < 0
    /\ LineCount(SgySource, sgy_args[2]) > 1
    /\ sgy_ret = SliceAt(SgySource, sgy_args[2], 0)
    /\ sgy_ret # SliceAt(SgySource, sgy_args[2], LineCount(SgySource, sgy_args[2]) - 1)

\* C2: in the degraded fallback every index yields the replicated trace at the
\* nearest valid trace number, never null and never another trace.
C2_FallbackClamps ==
    (SgyReturned /\ DegradedRun) =>
        sgy_ret = Replicated(SgySource, NearestValid(sgy_args[3], SgySource.tracecount))

\* C6: no value returned by the degraded fallback is also the value of some
\* geometry-aware extraction, so the value itself tells the caller the mode.
C6_ModeDistinguishable ==
    (SgyReturned /\ DegradedRun /\ sgy_ret # None) =>
        \A g \in SmallVolumes \cup WideVolumes, t \in SliceTypes, i \in SliceIndices :
            g.fault = "none" => GeomSlice(g, t, i) # sgy_ret

----------------------------------------------------------------------------
(* Properties of create_3d_plot and of the main logic *)

Shape(m) == <<Rows(m), Cols(m)>>
Rectangular(m, shape) ==
    /\ Len(m) = shape[1]
    /\ \A r \in 1..Len(m) : Len(m[r]) = shape[2]

Plotted == main_pc = "done" /\ fig # None
SlicePlotted == Plotted /\ Len(fig) = 2
TerrainCols == Cols(terrain)
TerrainRows == Rows(terrain)

\* the raster at the form's TIF path loads: it exists and opens and reads without error
RasterLoads ==
    /\ tif_files[form.tif_file].exists
    /\ tif_files[form.tif_file].fault = "none"

\* C5: whenever the raster loads, the request ends with a scene that holds the
\* terrain surface first, and the slice surface exactly when the extraction
\* gave a slice; a missing volume gives the terrain-only scene.
C5_TerrainAlwaysRendered ==
    (main_pc = "done" /\ RasterLoads) =>
        /\ fig # None
        /\ fig[1].name = "terrain surface"
        /\ (Len(fig) = 2) <=> (seismic # None)
        /\ ~sgy_files[form.sgy_file].exists => Len(fig) = 1

\* C7: the slice surface's X, Y, Z and colour arrays all have the shape of the
\* slice.
C7_SliceArraysShareShape ==
    SlicePlotted =>
        /\ seismic # None
        /\ Rectangular(seismic, Shape(seismic))
        /\ Rectangular(fig[2].x, Shape(seismic))
        /\ Rectangular(fig[2].y, Shape(seismic))
        /\ Rectangular(fig[2].z, Shape(seismic))
        /\ Rectangular(fig[2].surfacecolor, Shape(seismic))

\* an Inline slice with more columns than rows was plotted
C7_Witness ==
    /\ SlicePlotted
    /\ form.slice_opt = "Inline"
    /\ Rows(seismic) < Cols(seismic)
    /\ Shape(fig[2].x) = Shape(seismic)

\* C8 as stated: the Inline surface has X = nx / 2 at every point and the
\* Crossline surface has Y = ny / 2 at every point, for odd and even nx, ny.
C8_PlaneAtHalf ==
    SlicePlotted =>
        /\ form.slice_opt = "Inline" =>
              \A p \in Cells(fig[2].x) :
                  2 * fig[2].x[p[1]][p[2]].n = TerrainCols * fig[2].x[p[1]][p[2]].d
        /\ form.slice_opt = "Crossline" =>
              \A p \in Cells(fig[2].y) :
                  2 * fig[2].y[p[1]][p[2]].n = TerrainRows * fig[2].y[p[1]][p[2]].d

\* C8 amended: the Inline surface has X = floor(nx / 2) at every point and the
\* Crossline surface has Y = floor(ny / 2) at every point: the integer h with
\* 2h <= n <= 2h + 1, which is n / 2 for even n only.
C8_PlaneAtFloorHalf ==
    SlicePlotted =>
        /\ form.slice_opt = "Inline" =>
              \A p \in Cells(fig[2].x) :
                  LET v == fig[2].x[p[1]][p[2]]
                  IN  v.k = "fin" /\ v.d = 1 /\ 2 * v.n <= TerrainCols
                      /\ TerrainCols <= 2 * v.n + 1
        /\ form.slice_opt = "Crossline" =>
              \A p \in Cells(fig[2].y) :
                  LET v == fig[2].y[p[1]][p[2]]
                  IN  v.k = "fin" /\ v.d = 1 /\ 2 * v.n <= TerrainRows
                      /\ TerrainRows <= 2 * v.n + 1

\* an Inline slice was placed on a terrain of 3 columns, at X = 1
C8_Witness ==
    /\ SlicePlotted
    /\ form.slice_opt = "Inline"
    /\ TerrainCols = 3
    /\ \A p \in Cells(fig[2].x) : fig[2].x[p[1]][p[2]] = Fin(1)

----------------------------------------------------------------------------
(* Properties of the cache and of the file handles *)

\* C9: a call whose key is stored returns the stored value without running
\* the body (no handle is opened), and a stored entry never changes.
C9_CacheWriteOnce ==
    [][/\ \A k \in DOMAIN tif_cache :
             k \in DOMAIN tif_cache' /\ tif_cache'[k] = tif_cache[k]
       /\ \A k \in DOMAIN sgy_cache :
             k \in DOMAIN sgy_cache' /\ sgy_cache'[k] = sgy_cache[k]
       /\ (tif_pc = "called" /\ TifKey(tif_arg) \in DOMAIN tif_cache /\ tif_pc' # tif_pc) =>
             /\ tif_pc' = "returned"
             /\ tif_ret' = tif_cache[TifKey(tif_arg)]
             /\ handles' = handles
       /\ (sgy_pc = "called" /\ SgyKey(sgy_args) \in DOMAIN sgy_cache /\ sgy_pc' # sgy_pc) =>
             /\ sgy_pc' = "returned"
             /\ sgy_ret' = sgy_cache[SgyKey(sgy_args)]
             /\ handles' = handles
      ]_vars

\* a repeated request was served the stored geometry-aware slice although the
\* file now at the path has no geometry and could only give a replicated trace
C9_Witness ==
    /\ sgy_pc = "returned"
    /\ SgyKey(sgy_args) \in DOMAIN sgy_cache
    /\ sgy_ret = sgy_cache[SgyKey(sgy_args)]
    /\ sgy_ret # None
    /\ Cols(sgy_ret) # RepeatCols
    /\ sgy_files[sgy_args[1]].exists
    /\ ~sgy_files[sgy_args[1]].geometry

SgyHandles == {"sgy_geom", "sgy_raw"}

\* C10: when load_tif_data or load_sgy_slice has returned, the handles it
\* opened are closed, and the two handles on the volume are never open together.
C10_HandlesScoped ==
    /\ Cardinality(handles \cap SgyHandles) <= 1
    /\ tif_pc \in {"return", "returned", "idle"} => "tif" \notin handles
    /\ sgy_pc \in {"return", "returned", "idle"} => handles \cap SgyHandles = {}
    /\ sgy_pc = "except" => "sgy_geom" \notin handles

\* the geometry-ignoring handle is open after a geometry-aware read that
\* failed inside its with block
C10_Witness ==
    /\ sgy_pc = "with_raw"
    /\ handles = {"sgy_raw"}
    /\ sgy_files[sgy_args[1]].geometry
    /\ sgy_files[sgy_args[1]].fault = "read"

====
